---- MODULE Spec2Model ----
(***************************************************************************)
(* Verification model of the Scrible RAG pipeline scripts:                 *)
(*   src/scripts/production-setup.py        (ProductionVectorDB)           *)
(*   src/scripts/setup-production-system.py (ScriblProductionSystem)       *)
(*   src/scripts/setup-vector-db.py         (VectorDBSetup)                *)
(* Strings are sequences of one-character strings.                         *)
(***************************************************************************)
EXTENDS Integers, Sequences, FiniteSets, TLC

(***************************************************************************)
(* Bounds of the chunker inputs.                                           *)
(***************************************************************************)
MaxTextLen == 7
MaxNlTextLen == 5
MaxChunkSize == 3

PlainAlphabet == {"a", ".", " "}
Alphabet == PlainAlphabet \cup {"\n"}
OverlapValues == {0, 50, 64}

\* the texts the chunker is run on
Texts ==
    UNION {[1..n -> PlainAlphabet] : n \in 0..MaxTextLen}
        \cup UNION {[1..n -> Alphabet] : n \in 0..MaxNlTextLen}

(***************************************************************************)
(* Python string helpers.                                                  *)
(***************************************************************************)
IsSpace(c) == c \in {" ", "\n"}

\* text.replace('\n', ' ')
ReplaceNewline(t) == [i \in 1..Len(t) |-> IF t[i] = "\n" THEN " " ELSE t[i]]

\* s.strip(): drop leading and trailing whitespace
Strip(s) ==
    LET keep == {i \in 1..Len(s) : ~IsSpace(s[i])}
    IN  IF keep = {} THEN <<>>
        ELSE LET lo == CHOOSE i \in keep : \A j \in keep : i <= j
                 hi == CHOOSE i \in keep : \A j \in keep : i >= j
             IN  SubSeq(s, lo, hi)

\* t.split('. '): the occurrences of ". " cannot overlap one another, so the
\* left-to-right scan of str.split cuts at every occurrence
SplitDot(t) ==
    LET cuts == {i \in 1..(Len(t) - 1) : t[i] = "." /\ t[i + 1] = " "}
        nth(k) == CHOOSE p \in cuts : Cardinality({q \in cuts : q < p}) = k - 1
        from(k) == IF k = 1 THEN 1 ELSE nth(k - 1) + 2
        upto(k) == IF k = Cardinality(cuts) + 1 THEN Len(t) ELSE nth(k) - 1
    IN  [k \in 1..(Cardinality(cuts) + 1) |-> SubSeq(t, from(k), upto(k))]

\* ". ".join(ss)
RECURSIVE Join(_)
Join(ss) ==
    IF ss = <<>> THEN <<>>
    ELSE IF Len(ss) = 1 THEN ss[1]
    ELSE ss[1] \o <<".", " ">> \o Join(Tail(ss))

\* Python floor division a // b for b > 0
FloorDiv(a, b) == IF a >= 0 THEN a \div b ELSE -((-a + b - 1) \div b)

\* Python slice xs[m:] for m <= 0: the last -m elements, the whole list
\* when m = 0 or -m >= len(xs)
SliceFrom(xs, m) ==
    IF m = 0 \/ -m >= Len(xs) THEN xs
    ELSE SubSeq(xs, Len(xs) + m + 1, Len(xs))

(***************************************************************************)
(* intelligent_chunking.  The loop state is the record                     *)
(*   [current_chunk, current_sentences, chunks, seeds, cur_seed]           *)
(* where seeds[k] is the number of overlap sentences chunk k was seeded    *)
(* with (len(overlap_sentences) when the chunk was started).               *)
(***************************************************************************)
VARIABLES text, chunk_size, overlap, sentences, pos, loop, cpc

cvars == <<text, chunk_size, overlap, sentences, pos, loop, cpc>>

\* the chunk_info dictionary
ChunkInfo(cc, cs) ==
    [text |-> Strip(cc),
     sentence_count |-> Len(cs),
     char_count |-> Len(cc),
     start_sentence |-> IF cs # <<>> THEN cs[1] ELSE <<>>,
     end_sentence |-> IF cs # <<>> THEN cs[Len(cs)] ELSE <<>>]

\* current_sentences[-overlap//50:] if len(current_sentences) > overlap//50 else []
OverlapSentences(cs, ov) ==
    IF Len(cs) > FloorDiv(ov, 50) THEN SliceFrom(cs, FloorDiv(-ov, 50)) ELSE <<>>

\* test_chunk = current_chunk + ". " + sentence if current_chunk else sentence
TestChunk(cc, s) == IF cc # <<>> THEN cc \o <<".", " ">> \o s ELSE s

\* len(test_chunk) > chunk_size and current_chunk
Overflows(cc, s, size) == Len(TestChunk(cc, s)) > size /\ cc # <<>>

\* the state before the first sentence
LoopStart ==
    [current_chunk |-> <<>>, current_sentences |-> <<>>, chunks |-> <<>>,
     seeds |-> <<>>, cur_seed |-> 0]

\* the overflow branch: finalize the current chunk, start the next with overlap
CloseChunk(st, ov) ==
    LET ovs == OverlapSentences(st.current_sentences, ov)
    IN  [current_chunk |-> Join(ovs),
         current_sentences |-> ovs,
         chunks |-> Append(st.chunks, ChunkInfo(st.current_chunk, st.current_sentences)),
         seeds |-> Append(st.seeds, st.cur_seed),
         cur_seed |-> Len(ovs)]

\* one iteration of the for loop on the raw sentence
LoopBody(st, raw, size, ov) ==
    LET s == Strip(raw)
        test_chunk == TestChunk(st.current_chunk, s)
        st1 == IF Overflows(st.current_chunk, s, size) THEN CloseChunk(st, ov) ELSE st
    IN  IF s = <<>> THEN st
        ELSE [st1 EXCEPT !.current_chunk = test_chunk,
                         !.current_sentences = Append(st1.current_sentences, s)]

\* a variant that adds the final chunk without looking at its text
FinalChunkAlways(st) ==
    [st EXCEPT !.chunks = Append(st.chunks, ChunkInfo(st.current_chunk, st.current_sentences)),
               !.seeds = Append(st.seeds, st.cur_seed)]

\* after the loop: add the final chunk
FinalChunk(st) ==
    IF Strip(st.current_chunk) # <<>>
    THEN [st EXCEPT !.chunks = Append(st.chunks, ChunkInfo(st.current_chunk, st.current_sentences)),
                    !.seeds = Append(st.seeds, st.cur_seed)]
    ELSE st

RECURSIVE LoopFrom(_, _, _, _, _)
LoopFrom(st, ss, k, size, ov) ==
    IF k > Len(ss) THEN st ELSE LoopFrom(LoopBody(st, ss[k], size, ov), ss, k + 1, size, ov)

\* the list of chunk_info returned for (text, chunk_size, overlap)
IntelligentChunking(t, size, ov) ==
    FinalChunk(LoopFrom(LoopStart, SplitDot(ReplaceNewline(t)), 1, size, ov)).chunks

(***************************************************************************)
(* Collaborators: the embedder, hash() and the FAISS index.                *)
(* A vector is a direction on the unit circle in steps of 60 degrees and   *)
(* a norm; scores are kept as twice their real value so they are integers. *)
(***************************************************************************)
MaxFileOps == 3
LongSentenceLen == 300

NumDirs == 3
DocIds == {"d1", "d2"}
HashSeeds == {0, 1}
KValues == {1, 2}

\* the stand-in for SentenceTransformer.encode on one text: a deterministic
\* function of the text; a text starting with "z" gets the zero vector
RawEmbed(t) ==
    [dir |-> Len(t) % NumDirs, mag |-> IF t # <<>> /\ t[1] = "z" THEN 0 ELSE 2]

\* v / np.linalg.norm(v): unit length, NaN when the norm is 0
Normalize(raw) ==
    IF raw.mag = 0 THEN [dir |-> 0, nan |-> TRUE] ELSE [dir |-> raw.dir, nan |-> FALSE]

\* twice the cosine of the angle between two directions
Cos2(a, b) ==
    LET d == IF a >= b THEN a - b ELSE b - a
    IN  CASE d = 0 -> 2 [] d = 1 -> 1 [] d = 2 -> -1 [] OTHER -> -2

\* twice the inner product of two unit vectors
InnerProduct2(u, v) == Cos2(u.dir, v.dir)

\* twice the squared L2 distance of two unit vectors: 2 * (2 - 2 cos)
L2Distance2(u, v) == 4 - 2 * Cos2(u.dir, v.dir)

\* hash(chunk_id) for chunk_id = f"{doc_id}_chunk_{i}" under the process's
\* hash seed, as the pair (hi, lo) standing for hi * 2**31 + lo with
\* 0 <= lo < 2**31: under seed 0 the hashes of the chunk ids of d1 and d2
\* differ by a multiple of 2**31, under seed 1 they do not
PyHash(seed, doc_id, i) ==
    LET doc == IF doc_id = "d1" THEN 1 ELSE 2
    IN  IF seed = 0 THEN [hi |-> doc, lo |-> i] ELSE [hi |-> doc, lo |-> 10 * doc + i]

\* hash(chunk_id) % (2**31)
NumericId(seed, doc_id, i) == PyHash(seed, doc_id, i).lo

\* self.index = None
NoIndex == [created |-> FALSE, dim |-> 0, metric |-> "none", entries |-> <<>>]

\* faiss.IndexIDMap(faiss.IndexHNSWFlat(self.dimension, 32)): the metric of
\* IndexHNSWFlat is L2 unless one is passed
HnswMetric == "L2"

CreateOptimizedIndex(dim) ==
    [created |-> TRUE, dim |-> dim, metric |-> HnswMetric, entries |-> <<>>]

\* a variant that replaces the entries whose id is added again
AddWithIdsReplacing(idx, vecs, ids) ==
    LET kept == SelectSeq(idx.entries, LAMBDA e : \A i \in DOMAIN ids : ids[i] # e.id)
    IN  [idx EXCEPT !.entries = kept \o [i \in 1..Len(vecs) |-> [id |-> ids[i], vec |-> vecs[i]]]]

\* IndexIDMap.add_with_ids: appends every (id, vector) pair; ids already
\* present are not looked for
AddWithIds(idx, vecs, ids) ==
    [idx EXCEPT !.entries = idx.entries \o [i \in 1..Len(vecs) |-> [id |-> ids[i], vec |-> vecs[i]]]]

\* the score FAISS reports for one stored vector
ScoreOf(idx, q, v) == IF idx.metric = "L2" THEN L2Distance2(q, v) ELSE InnerProduct2(q, v)

\* e1 is ranked no later than e2: nearest first under L2, largest first
\* under inner product
RankedBefore(idx, s1, s2) == IF idx.metric = "L2" THEN s1 <= s2 ELSE s1 >= s2

\* the hit FAISS pads a result with when fewer than k vectors qualify
SentinelHit == [id |-> -1, score |-> 0, nan |-> FALSE, sentinel |-> TRUE]

\* index.search(q, k): the k best entries in rank order, padded with the
\* sentinel.  A comparison with a NaN score is always false, so an entry
\* whose score is NaN may land anywhere in the result or be left out.
SearchHits(idx, q, k) ==
    LET n == Len(idx.entries)
        nans == {i \in 1..n : q.nan \/ idx.entries[i].vec.nan}
        sc == [i \in 1..n |-> ScoreOf(idx, q, idx.entries[i].vec)]
        m == IF k < n THEN k ELSE n
        lens == IF nans = {} THEN {m} ELSE 0..m
        picks == {p \in UNION {[1..j -> 1..n] : j \in lens} :
                    /\ \A a, b \in DOMAIN p :
                          a < b => /\ p[a] # p[b]
                                   /\ (p[a] \in nans \/ p[b] \in nans \/ RankedBefore(idx, sc[p[a]], sc[p[b]]))
                    /\ \A i \in (1..n) \ (nans \cup {p[a] : a \in DOMAIN p}) :
                          /\ Len(p) = m
                          /\ \A a \in DOMAIN p : p[a] \in nans \/ RankedBefore(idx, sc[p[a]], sc[i])}
    IN  {[j \in 1..k |-> IF j <= Len(p)
                         THEN [id |-> idx.entries[p[j]].id,
                               score |-> IF p[j] \in nans THEN 0 ELSE sc[p[j]],
                               nan |-> p[j] \in nans, sentinel |-> FALSE]
                         ELSE SentinelHit] : p \in picks}

(***************************************************************************)
(* ProductionVectorDB (production-setup.py): the instance, the files of    *)
(* its snapshot, and the result of the last call.  ops counts the calls    *)
(* that touch the files or start a new process, todo holds the documents   *)
(* not yet ingested.  A metadata record keeps the counts of its chunk's    *)
(* text, not the text.  document_metadata is the list of VectorDBSetup     *)
(* (setup-vector-db.py), which shares the other variables.                 *)
(***************************************************************************)
VARIABLES index, chunk_metadata, document_metadata, hashseed, disk, hits, ret, ops, todo

svars == <<index, chunk_metadata, document_metadata, hashseed, disk, hits, ret, ops, todo>>

\* self.dimension: the embedding dimension of all-MiniLM-L6-v2
Dimension == 384

DefaultChunkSize == 512
DefaultOverlap == 64

EmptyText == <<>>
BlankText == <<" ">>
ShortText == <<"a", ".", " ", "b">>
ZeroText == <<"z">>
LongText ==
    [i \in 1..LongSentenceLen |-> "a"] \o <<".", " ">> \o [i \in 1..LongSentenceLen |-> "b"]

DocContents == {EmptyText, BlankText, ShortText, ZeroText, LongText}

\* the documents handed to the pipeline, each ingested at most once: two
\* versions of d1, and d2 with a usable, an empty and a blank content
Documents ==
    {[id |-> "d1", content |-> ShortText], [id |-> "d1", content |-> LongText],
     [id |-> "d2", content |-> ShortText],
     [id |-> "d2", content |-> EmptyText], [id |-> "d2", content |-> BlankText]}

Queries == {<<"a">>, <<"a", "a">>}

\* self.intelligent_chunking(content) with the default chunk_size and overlap
DefaultChunks == [c \in DocContents |-> IntelligentChunking(c, DefaultChunkSize, DefaultOverlap)]

NoFile == [state |-> "absent", index |-> NoIndex, records |-> <<>>]
NoDisk == [faiss |-> NoFile, meta |-> NoFile, stats |-> "absent"]

Ret(op, status) == [op |-> op, status |-> status, ids |-> <<>>, results |-> <<>>]

\* the state __init__ leaves; the files are those of earlier runs
Constructed ==
    /\ index = NoIndex
    /\ chunk_metadata = <<>>
    /\ document_metadata = <<>>
    /\ hashseed \in HashSeeds
    /\ hits = <<>>
    /\ ret = Ret("init", "ok")

\* the metadata dictionaries of one document's chunks
ChunkRecords(doc_id, chunks, numeric_ids) ==
    [i \in 1..Len(chunks) |->
        [doc_id |-> doc_id,
         chunk_id |-> <<doc_id, i - 1>>,
         chunk_index |-> i - 1,
         sentence_count |-> chunks[i].sentence_count,
         char_count |-> chunks[i].char_count,
         embedding_id |-> numeric_ids[i]]]

\* process_document_async(document); enc_ok: model.encode returns
ProcessDocument(doc_id, content, enc_ok) ==
    LET chunks == DefaultChunks[content]
        embeddings == [i \in 1..Len(chunks) |-> Normalize(RawEmbed(chunks[i].text))]
        idx1 == IF index.created THEN index ELSE CreateOptimizedIndex(Dimension)
        numeric_ids == [i \in 1..Len(chunks) |-> NumericId(hashseed, doc_id, i - 1)]
    IN  /\ hits' = <<>>
        /\ UNCHANGED <<hashseed, disk, ops, document_metadata>>
        /\ IF content = <<>>
           THEN \* if not content: return error
                /\ ret' = Ret("ingest", "error")
                /\ UNCHANGED <<index, chunk_metadata>>
           ELSE IF ~enc_ok \/ chunks = <<>>
           THEN \* encode raises, or the norm of an empty batch does
                /\ ret' = Ret("ingest", "error")
                /\ UNCHANGED <<index, chunk_metadata>>
           ELSE IF idx1.dim # Dimension
           THEN \* add_with_ids refuses vectors of another dimension
                /\ index' = idx1
                /\ ret' = [Ret("ingest", "error") EXCEPT !.ids = numeric_ids]
                /\ UNCHANGED chunk_metadata
           ELSE /\ index' = AddWithIds(idx1, embeddings, numeric_ids)
                /\ chunk_metadata' = chunk_metadata \o ChunkRecords(doc_id, chunks, numeric_ids)
                /\ ret' = [Ret("ingest", "completed") EXCEPT !.ids = numeric_ids]

Ingest ==
    \E doc \in todo, ok \in BOOLEAN :
        /\ ProcessDocument(doc.id, doc.content, ok)
        /\ todo' = IF ret'.status = "completed" THEN todo \ {doc} ELSE todo

\* the position of the first metadata whose embedding_id is the hit's id,
\* 0 when the inner loop ends without one
FirstRecord(meta, id) ==
    LET found == {m \in 1..Len(meta) : meta[m].embedding_id = id}
    IN  IF found = {} THEN 0 ELSE CHOOSE m \in found : \A j \in found : m <= j

\* the loop over zip(scores[0], indices[0]): a hit of id -1 is skipped, and
\* so is a hit the inner loop finds no metadata for
JoinHits(h, meta) ==
    LET at == [i \in 1..Len(h) |-> IF h[i].id # -1 THEN FirstRecord(meta, h[i].id) ELSE 0]
        keep == {i \in 1..Len(h) : at[i] # 0}
        nth(j) == CHOOSE i \in keep : Cardinality({x \in keep : x < i}) = j - 1
    IN  [j \in 1..Cardinality(keep) |->
            [chunk_id |-> meta[at[nth(j)]].chunk_id,
             doc_id |-> meta[at[nth(j)]].doc_id,
             chunk_index |-> meta[at[nth(j)]].chunk_index,
             char_count |-> meta[at[nth(j)]].char_count,
             similarity_score |-> h[nth(j)].score,
             nan |-> h[nth(j)].nan]]

\* semantic_search(query, k); enc_ok: model.encode returns
SemanticSearch(q, k, enc_ok) ==
    /\ UNCHANGED <<index, chunk_metadata, document_metadata, hashseed, disk, ops, todo>>
    /\ IF ~index.created \/ Len(chunk_metadata) = 0
       THEN /\ hits' = <<>>
            /\ ret' = Ret("search", "ok")
       ELSE IF ~enc_ok \/ index.dim # Dimension
       THEN \* except Exception: print, return []
            /\ hits' = <<>>
            /\ ret' = Ret("search", "ok")
       ELSE \E h \in SearchHits(index, Normalize(RawEmbed(q)), k) :
                /\ hits' = h
                /\ ret' = [Ret("search", "ok") EXCEPT !.results = JoinHits(h, chunk_metadata)]

\* a search that reaches the index
Search == \E q \in Queries, k \in KValues : SemanticSearch(q, k, TRUE)

\* a search whose query cannot be embedded
SearchNoEmbedding == SemanticSearch(<<>>, 1, FALSE)

\* what a write that raises leaves of its file: the truncated file, or the
\* file as it was when open() itself raised
Failed(old, left) == IF left = "bad" THEN [NoFile EXCEPT !.state = "bad"] ELSE old

\* save_index(); io names the write that raises, "ok" when none does
SaveIndexTo(io, left) ==
    LET faiss_ok == [state |-> "ok", index |-> index, records |-> <<>>]
        meta_ok == [state |-> "ok", index |-> NoIndex, records |-> chunk_metadata]
        faiss1 == IF index.created THEN faiss_ok ELSE disk.faiss
    IN  /\ io = "faiss" => index.created
        /\ disk' =
             CASE io = "faiss" -> [disk EXCEPT !.faiss = Failed(disk.faiss, left)]
               [] io = "meta" -> [disk EXCEPT !.faiss = faiss1, !.meta = Failed(disk.meta, left)]
               [] io = "stats" ->
                    [faiss |-> faiss1, meta |-> meta_ok,
                     stats |-> IF left = "bad" THEN "bad" ELSE disk.stats]
               [] OTHER -> [faiss |-> faiss1, meta |-> meta_ok, stats |-> "ok"]
        /\ ops < MaxFileOps
        /\ ops' = ops + 1
        /\ hits' = <<>>
        /\ ret' = Ret("save", IF io = "ok" THEN "ok" ELSE "error")
        /\ UNCHANGED <<index, chunk_metadata, document_metadata, hashseed, todo>>

Save == \E io \in {"ok", "faiss", "meta", "stats"}, left \in {"bad", "kept"} : SaveIndexTo(io, left)

\* load_index()
LoadIndex ==
    /\ ops < MaxFileOps
    /\ ops' = ops + 1
    /\ hits' = <<>>
    /\ UNCHANGED <<hashseed, disk, todo, document_metadata>>
    /\ IF disk.faiss.state # "ok"
       THEN \* no .faiss file, or read_index raises
            /\ ret' = Ret("load", "false")
            /\ UNCHANGED <<index, chunk_metadata>>
       ELSE /\ index' = disk.faiss.index
            /\ IF disk.meta.state = "bad"
               THEN \* json.load raises
                    /\ ret' = Ret("load", "false")
                    /\ UNCHANGED chunk_metadata
               ELSE /\ chunk_metadata' =
                         IF disk.meta.state = "ok" THEN disk.meta.records ELSE chunk_metadata
                    /\ ret' = Ret("load", IF disk.stats = "bad" THEN "false" ELSE "true")

\* a new process constructs a new instance; the files stay
Restart ==
    /\ ops < MaxFileOps
    /\ ops' = ops + 1
    /\ index' = NoIndex
    /\ chunk_metadata' = <<>>
    /\ document_metadata' = <<>>
    /\ hashseed' \in HashSeeds
    /\ hits' = <<>>
    /\ ret' = Ret("init", "ok")
    /\ UNCHANGED <<disk, todo>>

(***************************************************************************)
(* VectorDBSetup (setup-vector-db.py).  Its methods catch nothing but the  *)
(* FileNotFoundError of load_index: an exception reaches the caller.       *)
(***************************************************************************)
WordChunkSize == 500
WordOverlap == 50

\* text.split(): the maximal runs of non-whitespace characters
Words(t) ==
    LET starts == {i \in 1..Len(t) : ~IsSpace(t[i]) /\ (i = 1 \/ IsSpace(t[i - 1]))}
        ends == {i \in 1..Len(t) : ~IsSpace(t[i]) /\ (i = Len(t) \/ IsSpace(t[i + 1]))}
        nth(S, k) == CHOOSE p \in S : Cardinality({q \in S : q < p}) = k - 1
    IN  [k \in 1..Cardinality(starts) |-> SubSeq(t, nth(starts, k), nth(ends, k))]

\* ' '.join(ws)
RECURSIVE JoinSpace(_)
JoinSpace(ws) ==
    IF ws = <<>> THEN <<>>
    ELSE IF Len(ws) = 1 THEN ws[1]
    ELSE ws[1] \o <<" ">> \o JoinSpace(Tail(ws))

\* a variant without the break: the loop runs until the range is exhausted
LoopBreaksNever(i, size, n) == FALSE

\* if i + chunk_size >= len(words): break
LoopBreaks(i, size, n) == i + size >= n

\* ' '.join(words[i:i + chunk_size])
WordWindow(ws, i, size) ==
    JoinSpace(SubSeq(ws, i + 1, IF i + size < Len(ws) THEN i + size ELSE Len(ws)))

\* the loop of chunk_text from offset i (0-based), for chunk_size > overlap
RECURSIVE WordChunksFrom(_, _, _, _)
WordChunksFrom(ws, i, size, ov) ==
    IF i >= Len(ws) THEN <<>>
    ELSE LET chunk == WordWindow(ws, i, size)
         IN  IF LoopBreaks(i, size, Len(ws)) THEN <<chunk>>
             ELSE <<chunk>> \o WordChunksFrom(ws, i + (size - ov), size, ov)

\* chunk_text(text, chunk_size, overlap)
ChunkText(t, size, ov) == WordChunksFrom(Words(t), 0, size, ov)

\* faiss.IndexIDMap(faiss.IndexFlatIP(self.dimension))
CreateFaissIndex(dim) ==
    [created |-> TRUE, dim |-> dim, metric |-> "IP", entries |-> <<>>]

WordsText == <<"a", " ", "b">>
OneWordText == <<"a">>

\* the documents handed to add_documents, each in at most one call
SetupDocuments ==
    {[id |-> "d1", content |-> WordsText], [id |-> "d2", content |-> OneWordText],
     [id |-> "d2", content |-> BlankText]}

\* the metadata and texts the loops of add_documents collect for one
\* document
DocRecords(doc) ==
    LET chunks == ChunkText(doc.content, WordChunkSize, WordOverlap)
    IN  [i \in 1..Len(chunks) |->
            [doc_id |-> doc.id,
             chunk_id |-> <<doc.id, i - 1>>,
             chunk_index |-> i - 1,
             content |-> chunks[i]]]

RECURSIVE BatchRecords(_)
BatchRecords(docs) ==
    IF docs = <<>> THEN <<>> ELSE DocRecords(docs[1]) \o BatchRecords(Tail(docs))

\* add_documents(documents); enc_ok: model.encode returns
AddDocumentsOf(docs, enc_ok) ==
    LET idx1 == IF index.created THEN index ELSE CreateFaissIndex(Dimension)
        recs == BatchRecords(docs)
        embeddings == [i \in 1..Len(recs) |-> Normalize(RawEmbed(recs[i].content))]
        ids == [i \in 1..Len(recs) |-> NumericId(hashseed, recs[i].doc_id, recs[i].chunk_index)]
    IN  /\ document_metadata' = document_metadata \o recs
        /\ hits' = <<>>
        /\ UNCHANGED <<chunk_metadata, hashseed, disk, ops>>
        /\ IF ~enc_ok \/ recs = <<>>
           THEN \* encode raises, or the norm of an empty batch does
                /\ index' = idx1
                /\ ret' = Ret("add", "raised")
           ELSE IF idx1.dim # Dimension
           THEN /\ index' = idx1
                /\ ret' = [Ret("add", "raised") EXCEPT !.ids = ids]
           ELSE /\ index' = AddWithIds(idx1, embeddings, ids)
                /\ ret' = [Ret("add", "ok") EXCEPT !.ids = ids]

AddDocuments ==
    \E docs \in {<<d>> : d \in todo} \cup {<<d, e>> : d, e \in todo}, ok \in BOOLEAN :
        /\ Len(docs) = 2 => docs[1] # docs[2]
        /\ AddDocumentsOf(docs, ok)
        /\ todo' = todo \ {docs[i] : i \in 1..Len(docs)}

\* the position of the first metadata whose chunk_id hashes to the hit's
\* id in this process, 0 when there is none
FirstByHash(meta, seed, id) ==
    LET found == {m \in 1..Len(meta) : NumericId(seed, meta[m].doc_id, meta[m].chunk_index) = id}
    IN  IF found = {} THEN 0 ELSE CHOOSE m \in found : \A j \in found : m <= j

\* the loop of search_similar over zip(scores[0], indices[0])
JoinByHash(h, meta, seed) ==
    LET at == [i \in 1..Len(h) |-> IF h[i].id # -1 THEN FirstByHash(meta, seed, h[i].id) ELSE 0]
        keep == {i \in 1..Len(h) : at[i] # 0}
        nth(j) == CHOOSE i \in keep : Cardinality({x \in keep : x < i}) = j - 1
    IN  [j \in 1..Cardinality(keep) |->
            [chunk_id |-> meta[at[nth(j)]].chunk_id,
             doc_id |-> meta[at[nth(j)]].doc_id,
             chunk_index |-> meta[at[nth(j)]].chunk_index,
             similarity_score |-> h[nth(j)].score,
             nan |-> h[nth(j)].nan]]

\* search_similar(query, k); enc_ok: model.encode returns
SearchSimilarFor(q, k, enc_ok) ==
    /\ UNCHANGED <<index, chunk_metadata, document_metadata, hashseed, disk, ops, todo>>
    /\ IF ~index.created
       THEN /\ hits' = <<>>
            /\ ret' = Ret("search", "ok")
       ELSE IF ~enc_ok \/ index.dim # Dimension
       THEN /\ hits' = <<>>
            /\ ret' = Ret("search", "raised")
       ELSE \E h \in SearchHits(index, Normalize(RawEmbed(q)), k) :
                /\ hits' = h
                /\ ret' = [Ret("search", "ok") EXCEPT
                              !.results = JoinByHash(h, document_metadata, hashseed)]

SearchSimilar == \E q \in Queries, k \in KValues : SearchSimilarFor(q, k, TRUE)

SearchSimilarNoEmbedding == SearchSimilarFor(<<>>, 1, FALSE)

\* save_index(filepath): nothing is written while self.index is None
SetupSaveTo(io, left) ==
    LET faiss_ok == [state |-> "ok", index |-> index, records |-> <<>>]
        meta_ok == [state |-> "ok", index |-> NoIndex, records |-> document_metadata]
    IN  /\ ops < MaxFileOps
        /\ ops' = ops + 1
        /\ io # "ok" => index.created
        /\ disk' =
             IF ~index.created THEN disk
             ELSE CASE io = "faiss" -> [disk EXCEPT !.faiss = Failed(disk.faiss, left)]
                    [] io = "meta" -> [disk EXCEPT !.faiss = faiss_ok, !.meta = Failed(disk.meta, left)]
                    [] OTHER -> [disk EXCEPT !.faiss = faiss_ok, !.meta = meta_ok]
        /\ hits' = <<>>
        /\ ret' = Ret("save", IF io = "ok" THEN "ok" ELSE "raised")
        /\ UNCHANGED <<index, chunk_metadata, document_metadata, hashseed, todo>>

SetupSave == \E io \in {"ok", "faiss", "meta"}, left \in {"bad", "kept"} : SetupSaveTo(io, left)

\* load_index(filepath): read_index raises RuntimeError on a missing or
\* unreadable file, and only FileNotFoundError is caught
SetupLoad ==
    /\ ops < MaxFileOps
    /\ ops' = ops + 1
    /\ hits' = <<>>
    /\ UNCHANGED <<chunk_metadata, hashseed, disk, todo>>
    /\ IF disk.faiss.state # "ok"
       THEN /\ ret' = Ret("load", "raised")
            /\ UNCHANGED <<index, document_metadata>>
       ELSE /\ index' = disk.faiss.index
            /\ IF disk.meta.state = "ok"
               THEN /\ document_metadata' = disk.meta.records
                    /\ ret' = Ret("load", "ok")
               ELSE \* open raises FileNotFoundError (caught), or json.load raises
                    /\ UNCHANGED document_metadata
                    /\ ret' = Ret("load", IF disk.meta.state = "absent" THEN "ok" ELSE "raised")

(***************************************************************************)
(* ScriblProductionSystem (setup-production-system.py) under asyncio.      *)
(* Its index, chunk_metadata and semantic_search are those of              *)
(* ProductionVectorDB.  tasks holds, for each ingestion task, the block of *)
(* process_document_async it executes next; running is the task the event  *)
(* loop is executing, "none" while the loop is free.  A coroutine gives    *)
(* the loop up only at an await that suspends, and a cancellation reaches  *)
(* a task only before its first step or while it is suspended.             *)
(***************************************************************************)
VARIABLES tasks, running

avars == <<tasks, running>>

TaskIds == {"t1", "t2"}

\* the document each task ingests, with the content its extractor returns
TaskDocument(t) ==
    IF t = "t1" THEN [id |-> "d1", content |-> LongText]
    ELSE [id |-> "d2", content |-> ShortText]

NewTask == [pc |-> "new", suspended |-> FALSE, resumed |-> FALSE]

\* no ingestion task exists
AsyncIdle ==
    /\ tasks = [t \in TaskIds |-> [NewTask EXCEPT !.pc = "absent"]]
    /\ running = "none"

\* a variant with one more await, between add_with_ids and the metadata loop
AwaitsBeforeMetadata(pc) == pc \in {"meta", "summary", "keypoints"}

\* the blocks of process_document_async that begin with an await
AwaitsAt(pc) == pc \in {"summary", "keypoints"}

\* the block that follows pc on the path without failure
NextBlock(pc) ==
    CASE pc = "extract" -> "embed"
      [] pc = "embed" -> "add"
      [] pc = "add" -> "meta"
      [] pc = "meta" -> "summary"
      [] pc = "summary" -> "keypoints"
      [] pc = "keypoints" -> "return"
      [] OTHER -> "done"

\* task t holds the event loop and is about to execute block pc
Executes(t, pc) ==
    /\ running = t
    /\ tasks[t].pc = pc
    /\ ~tasks[t].suspended

Advance(t) ==
    tasks' = [tasks EXCEPT ![t] = [pc |-> NextBlock(tasks[t].pc), suspended |-> FALSE, resumed |-> FALSE]]

\* the coroutine ends: the event loop is free again
Finish(t, pc, status) ==
    /\ tasks' = [tasks EXCEPT ![t] = [pc |-> pc, suspended |-> FALSE, resumed |-> FALSE]]
    /\ running' = "none"
    /\ ret' = Ret("ingest", status)

\* the event loop starts the task
AsyncStart(t) ==
    /\ running = "none"
    /\ tasks[t].pc = "new"
    /\ running' = t
    /\ tasks' = [tasks EXCEPT ![t].pc = "extract"]
    /\ UNCHANGED <<svars>>

\* Step 1: the extractor of the document's type, or ValueError for a type
\* that has none; ok: the extraction succeeds
AsyncExtract(t, ok) ==
    /\ Executes(t, "extract")
    /\ IF ok THEN Advance(t) /\ UNCHANGED <<running, ret>>
       ELSE Finish(t, "failed", "failed")
    /\ UNCHANGED <<index, chunk_metadata, document_metadata, hashseed, disk, hits, ops, todo>>

\* Steps 2 to 4: chunking, encode and normalisation; ok: encode returns
AsyncEmbed(t, ok) ==
    /\ Executes(t, "embed")
    /\ IF ok /\ DefaultChunks[TaskDocument(t).content] # <<>>
       THEN Advance(t) /\ UNCHANGED <<running, ret>>
       ELSE Finish(t, "failed", "failed")
    /\ UNCHANGED <<index, chunk_metadata, document_metadata, hashseed, disk, hits, ops, todo>>

\* a variant that creates the index without looking whether there is one
IndexForAddFresh(idx) == CreateOptimizedIndex(Dimension)

\* if self.index is None: self.index = self.create_optimized_index()
IndexForAdd(idx) == IF idx.created THEN idx ELSE CreateOptimizedIndex(Dimension)

\* Step 5: create the index when there is none, add_with_ids
AsyncAdd(t) ==
    LET doc == TaskDocument(t)
        chunks == DefaultChunks[doc.content]
        embeddings == [i \in 1..Len(chunks) |-> Normalize(RawEmbed(chunks[i].text))]
        idx1 == IndexForAdd(index)
        numeric_ids == [i \in 1..Len(chunks) |-> NumericId(hashseed, doc.id, i - 1)]
    IN  /\ Executes(t, "add")
        /\ index' = AddWithIds(idx1, embeddings, numeric_ids)
        /\ Advance(t)
        /\ UNCHANGED <<running, chunk_metadata, document_metadata, hashseed, disk, hits, ret, ops, todo>>

\* Step 6: append the metadata of every chunk
AsyncMeta(t) ==
    LET doc == TaskDocument(t)
        chunks == DefaultChunks[doc.content]
        numeric_ids == [i \in 1..Len(chunks) |-> NumericId(hashseed, doc.id, i - 1)]
    IN  /\ Executes(t, "meta")
        /\ chunk_metadata' = chunk_metadata \o ChunkRecords(doc.id, chunks, numeric_ids)
        /\ Advance(t)
        /\ UNCHANGED <<running, index, document_metadata, hashseed, disk, hits, ret, ops, todo>>

\* the await at the head of the task's block suspends it
AsyncSuspend(t) ==
    /\ running = t
    /\ AwaitsAt(tasks[t].pc)
    /\ ~tasks[t].resumed
    /\ tasks' = [tasks EXCEPT ![t].suspended = TRUE]
    /\ running' = "none"
    /\ UNCHANGED <<svars>>

\* the awaited call has completed: the event loop resumes the task
AsyncResume(t) ==
    /\ running = "none"
    /\ tasks[t].suspended
    /\ tasks' = [tasks EXCEPT ![t].suspended = FALSE, ![t].resumed = TRUE]
    /\ running' = t
    /\ UNCHANGED <<svars>>

\* Step 7: generate_summary, then extract_key_points, have returned
AsyncSummary(t) ==
    /\ \/ Executes(t, "summary")
       \/ Executes(t, "keypoints")
    /\ Advance(t)
    /\ UNCHANGED <<running, svars>>

\* return result
AsyncReturn(t) ==
    /\ Executes(t, "return")
    /\ Finish(t, "done", "completed")
    /\ UNCHANGED <<index, chunk_metadata, document_metadata, hashseed, disk, hits, ops, todo>>

\* task.cancel() or the timeout of asyncio.wait_for: CancelledError is
\* raised in a task that has not started or that is suspended, and no
\* handler of process_document_async undoes what the task has stored
AsyncCancel(t) ==
    /\ running = "none"
    /\ tasks[t].pc = "new" \/ tasks[t].suspended
    /\ tasks' = [tasks EXCEPT ![t] = [pc |-> "cancelled", suspended |-> FALSE, resumed |-> FALSE]]
    /\ UNCHANGED <<running, svars>>

\* a search task: semantic_search has no await, it runs from its first
\* line to its return once the event loop starts it
AsyncSearch ==
    /\ running = "none"
    /\ \E q \in Queries, k \in KValues : SemanticSearch(q, k, TRUE)
    /\ UNCHANGED avars

(***************************************************************************)
(* main (production-setup.py): the loop that hands the documents of a      *)
(* batch to process_document_async one after the other, then save_index    *)
(* and the test searches.  batch holds the documents, the position of the  *)
(* loop, the line main printed for each document it got a result for, and  *)
(* where main is: "raised" when an exception left it.                      *)
(***************************************************************************)
VARIABLE batch

MaxBatchLen == 3

\* the value of a key the document dictionary does not have
Missing == "missing"

\* well-formed documents, a document without content, and the two malformed
\* records: one without 'id', one without 'name'
BatchDocuments ==
    {[id |-> "d1", name |-> "n1", content |-> ShortText],
     [id |-> "d2", name |-> "n2", content |-> LongText],
     [id |-> "d2", name |-> "n2", content |-> EmptyText],
     [id |-> Missing, name |-> "n1", content |-> ShortText],
     [id |-> "d1", name |-> Missing, content |-> ShortText]}

Batches == UNION {[1..n -> BatchDocuments] : n \in 1..MaxBatchLen}

NoBatch == [docs |-> <<>>, pos |-> 1, reports |-> <<>>, pc |-> "idle"]

\* document['id'] of process_document_async stands before its try: the
\* KeyError leaves the coroutine and, main catching nothing, the loop
BatchMalformed ==
    /\ batch.pc = "loop"
    /\ batch.pos <= Len(batch.docs)
    /\ batch.docs[batch.pos].id = Missing
    /\ batch' = [batch EXCEPT !.pc = "raised"]
    /\ hits' = <<>>
    /\ ret' = Ret("ingest", "raised")
    /\ UNCHANGED <<index, chunk_metadata, document_metadata, hashseed, disk, ops, todo>>

\* result = await vector_db.process_document_async(doc), then the line
\* printed for it, which reads doc['name'] whatever the status is
BatchProcess ==
    /\ batch.pc = "loop"
    /\ batch.pos <= Len(batch.docs)
    /\ batch.docs[batch.pos].id # Missing
    /\ \E ok \in BOOLEAN :
          ProcessDocument(batch.docs[batch.pos].id, batch.docs[batch.pos].content, ok)
    /\ batch' =
          IF batch.docs[batch.pos].name = Missing
          THEN [batch EXCEPT !.pc = "raised"]
          ELSE [batch EXCEPT !.pos = @ + 1,
                             !.reports = Append(@, [doc |-> batch.pos, status |-> ret'.status])]
    /\ UNCHANGED todo

\* vector_db.save_index() after the loop
BatchSave ==
    /\ batch.pc = "loop"
    /\ batch.pos > Len(batch.docs)
    /\ Save
    /\ batch' = [batch EXCEPT !.pc = "saved"]

\* the test queries
BatchSearch ==
    /\ batch.pc = "saved"
    /\ \E q \in Queries, k \in KValues : SemanticSearch(q, k, TRUE)
    /\ batch' = [batch EXCEPT !.pc = "done"]

(***************************************************************************)
(* answer_question (setup-production-system.py).  answer is what the last  *)
(* call returned when that call was answer_question: the kind of its       *)
(* answer text, the excerpts a fallback text quotes, the sources and the   *)
(* confidence, a score kept as twice its value like every score; llm is    *)
(* the state of the LLM client during the call.                            *)
(***************************************************************************)
VARIABLE answer

\* content[:200]
ExcerptLen == 200

NoAnswer ==
    [kind |-> "none", excerpts |-> <<>>, sources |-> <<>>,
     confidence |-> [value2 |-> 0, nan |-> FALSE], raised |-> FALSE, llm |-> "none"]

\* context_limit: a single chunk, and the default of the signature
ContextLimits == {1, 5}

\* relevant_chunks[:3]
FallbackExcerpts == 3

\* the fixed answer for an empty result set
InsufficientAnswer(llm) == [NoAnswer EXCEPT !.kind = "insufficient", !.llm = llm]

\* the answer of the except branch
ErrorAnswer(llm) == [NoAnswer EXCEPT !.kind = "error", !.llm = llm]

Min(a, b) == IF a <= b THEN a ELSE b

\* min(score, 1.0): min keeps its first argument unless the second is
\* smaller, and no number is smaller than NaN
Confidence(top) ==
    IF top.nan THEN [value2 |-> 0, nan |-> TRUE]
    ELSE [value2 |-> Min(top.similarity_score, 2), nan |-> FALSE]

\* answer_question without its except branch: the exception of the LLM call
\* leaves the coroutine
AnswerOfUncaught(results, llm) ==
    IF results = <<>> THEN InsufficientAnswer(llm)
    ELSE IF llm = "fails"
    THEN [NoAnswer EXCEPT !.kind = "raised", !.raised = TRUE, !.llm = llm]
    ELSE [kind |-> IF llm = "none" THEN "fallback" ELSE "generated",
          excerpts |->
              IF llm = "none"
              THEN [i \in 1..Min(FallbackExcerpts, Len(results)) |->
                       [chunk_id |-> results[i].chunk_id,
                        chars |-> Min(results[i].char_count, ExcerptLen)]]
              ELSE <<>>,
          sources |->
              [i \in DOMAIN results |->
                  [chunk_id |-> results[i].chunk_id,
                   similarity |-> results[i].similarity_score,
                   chars |-> Min(results[i].char_count, ExcerptLen),
                   truncated |-> results[i].char_count > ExcerptLen]],
          confidence |-> Confidence(results[1]),
          raised |-> FALSE,
          llm |-> llm]

\* the dictionary answer_question returns for the chunks semantic_search
\* gave it; llm: "none" without an API key, else whether the call returns
AnswerOf(results, llm) ==
    IF results = <<>> THEN InsufficientAnswer(llm)
    ELSE IF llm = "fails" THEN ErrorAnswer(llm)
    ELSE [kind |-> IF llm = "none" THEN "fallback" ELSE "generated",
          excerpts |->
              IF llm = "none"
              THEN [i \in 1..Min(FallbackExcerpts, Len(results)) |->
                       [chunk_id |-> results[i].chunk_id,
                        chars |-> Min(results[i].char_count, ExcerptLen)]]
              ELSE <<>>,
          sources |->
              [i \in DOMAIN results |->
                  [chunk_id |-> results[i].chunk_id,
                   similarity |-> results[i].similarity_score,
                   chars |-> Min(results[i].char_count, ExcerptLen),
                   truncated |-> results[i].char_count > ExcerptLen]],
          confidence |-> Confidence(results[1]),
          raised |-> FALSE,
          llm |-> llm]

\* answer_question(question, context_limit)
AnswerQuestion ==
    \E q \in Queries, k \in ContextLimits, ok \in BOOLEAN, llm \in {"none", "ok", "fails"} :
        /\ SemanticSearch(q, k, ok)
        /\ answer' = AnswerOf(ret'.results, llm)

ChunkInit ==
    /\ text \in Texts
    /\ chunk_size \in 1..MaxChunkSize
    /\ overlap \in OverlapValues
    /\ sentences = SplitDot(ReplaceNewline(text))
    /\ pos = 1
    /\ loop = LoopStart
    /\ cpc = "loop"
    /\ Constructed
    /\ hashseed = 0
    /\ disk = NoDisk
    /\ ops = 0
    /\ todo = Documents
    /\ AsyncIdle
    /\ batch = NoBatch
    /\ answer = NoAnswer

\* if not sentence: continue
ChunkSkip ==
    /\ cpc = "loop"
    /\ pos <= Len(sentences)
    /\ Strip(sentences[pos]) = <<>>
    /\ loop' = LoopBody(loop, sentences[pos], chunk_size, overlap)
    /\ pos' = pos + 1
    /\ UNCHANGED <<text, chunk_size, overlap, sentences, cpc, svars, avars, batch, answer>>

\* the sentence fits, or there is no chunk to close
ChunkAppend ==
    /\ cpc = "loop"
    /\ pos <= Len(sentences)
    /\ Strip(sentences[pos]) # <<>>
    /\ ~Overflows(loop.current_chunk, Strip(sentences[pos]), chunk_size)
    /\ loop' = LoopBody(loop, sentences[pos], chunk_size, overlap)
    /\ pos' = pos + 1
    /\ UNCHANGED <<text, chunk_size, overlap, sentences, cpc, svars, avars, batch, answer>>

\* the sentence overflows: finalize the chunk, seed the next one, append
ChunkClose ==
    /\ cpc = "loop"
    /\ pos <= Len(sentences)
    /\ Strip(sentences[pos]) # <<>>
    /\ Overflows(loop.current_chunk, Strip(sentences[pos]), chunk_size)
    /\ loop' = LoopBody(loop, sentences[pos], chunk_size, overlap)
    /\ pos' = pos + 1
    /\ UNCHANGED <<text, chunk_size, overlap, sentences, cpc, svars, avars, batch, answer>>

\* after the loop: add the final chunk and return
ChunkFinal ==
    /\ cpc = "loop"
    /\ pos > Len(sentences)
    /\ loop' = FinalChunk(loop)
    /\ cpc' = "done"
    /\ UNCHANGED <<text, chunk_size, overlap, sentences, pos, svars, avars, batch, answer>>

ChunkNext == ChunkSkip \/ ChunkAppend \/ ChunkClose \/ ChunkFinal

vars == <<cvars, svars, avars, batch, answer>>

SpecChunk == ChunkInit /\ [][ChunkNext]_vars

(***************************************************************************)
(* chunk_text of VectorDBSetup, one iteration of its loop per step, on the *)
(* chunker's variables: sentences holds the words, pos the loop index i    *)
(* (0-based), loop.chunks the chunks appended so far.                      *)
(***************************************************************************)
WordAlphabet == {"a", "b", " "}

WordTexts == UNION {[1..n -> WordAlphabet] : n \in 0..MaxTextLen}

\* a call with 0 <= overlap < chunk_size
WordInit ==
    /\ text \in WordTexts
    /\ chunk_size \in 1..MaxChunkSize
    /\ overlap \in 0..(chunk_size - 1)
    /\ sentences = Words(text)
    /\ pos = 0
    /\ loop = LoopStart
    /\ cpc = "loop"
    /\ Constructed
    /\ hashseed = 0
    /\ disk = NoDisk
    /\ ops = 0
    /\ todo = {}
    /\ AsyncIdle
    /\ batch = NoBatch
    /\ answer = NoAnswer

\* an iteration that appends a chunk and goes on with the next i
WordAppend ==
    /\ cpc = "loop"
    /\ pos < Len(sentences)
    /\ ~LoopBreaks(pos, chunk_size, Len(sentences))
    /\ loop' = [loop EXCEPT !.chunks = Append(@, WordWindow(sentences, pos, chunk_size))]
    /\ pos' = pos + (chunk_size - overlap)
    /\ UNCHANGED <<text, chunk_size, overlap, sentences, cpc, svars, avars, batch, answer>>

\* the iteration that appends a chunk and breaks
WordBreak ==
    /\ cpc = "loop"
    /\ pos < Len(sentences)
    /\ LoopBreaks(pos, chunk_size, Len(sentences))
    /\ loop' = [loop EXCEPT !.chunks = Append(@, WordWindow(sentences, pos, chunk_size))]
    /\ cpc' = "done"
    /\ UNCHANGED <<text, chunk_size, overlap, sentences, pos, svars, avars, batch, answer>>

\* range(0, len(words), chunk_size - overlap) is exhausted
WordExhausted ==
    /\ cpc = "loop"
    /\ pos >= Len(sentences)
    /\ cpc' = "done"
    /\ UNCHANGED <<text, chunk_size, overlap, sentences, pos, loop, svars, avars, batch, answer>>

WordNext == WordAppend \/ WordBreak \/ WordExhausted

SpecWords == WordInit /\ [][WordNext]_vars

\* the chunker's variables while the store runs
ChunkIdle ==
    /\ text = <<>>
    /\ chunk_size = DefaultChunkSize
    /\ overlap = DefaultOverlap
    /\ sentences = <<>>
    /\ pos = 1
    /\ loop = LoopStart
    /\ cpc = "idle"

Init ==
    /\ ChunkIdle
    /\ AsyncIdle
    /\ batch = NoBatch
    /\ answer = NoAnswer
    /\ Constructed
    /\ disk = NoDisk
    /\ ops = 0
    /\ todo = Documents

Next ==
    \/ Ingest /\ UNCHANGED <<cvars, avars, batch, answer>>
    \/ Search /\ UNCHANGED <<cvars, avars, batch, answer>>
    \/ SearchNoEmbedding /\ UNCHANGED <<cvars, avars, batch, answer>>
    \/ Save /\ UNCHANGED <<cvars, avars, batch, answer>>
    \/ LoadIndex /\ UNCHANGED <<cvars, avars, batch, answer>>
    \/ Restart /\ UNCHANGED <<cvars, avars, batch, answer>>

Spec == Init /\ [][Next]_vars

SetupInit ==
    /\ ChunkIdle
    /\ AsyncIdle
    /\ batch = NoBatch
    /\ answer = NoAnswer
    /\ Constructed
    /\ disk = NoDisk
    /\ ops = 0
    /\ todo = SetupDocuments

SetupNext ==
    \/ AddDocuments /\ UNCHANGED <<cvars, avars, batch, answer>>
    \/ SearchSimilar /\ UNCHANGED <<cvars, avars, batch, answer>>
    \/ SearchSimilarNoEmbedding /\ UNCHANGED <<cvars, avars, batch, answer>>
    \/ SetupSave /\ UNCHANGED <<cvars, avars, batch, answer>>
    \/ SetupLoad /\ UNCHANGED <<cvars, avars, batch, answer>>
    \/ Restart /\ UNCHANGED <<cvars, avars, batch, answer>>

SpecSetup == SetupInit /\ [][SetupNext]_vars

\* one system instance with an ingestion task per document, not yet started
AsyncInit ==
    /\ ChunkIdle
    /\ Constructed
    /\ disk = NoDisk
    /\ ops = 0
    /\ todo = {}
    /\ tasks = [t \in TaskIds |-> NewTask]
    /\ running = "none"
    /\ batch = NoBatch
    /\ answer = NoAnswer

AsyncNext ==
    \/ \E t \in TaskIds : AsyncStart(t) /\ UNCHANGED <<cvars, batch, answer>>
    \/ \E t \in TaskIds, ok \in BOOLEAN : AsyncExtract(t, ok) /\ UNCHANGED <<cvars, batch, answer>>
    \/ \E t \in TaskIds, ok \in BOOLEAN : AsyncEmbed(t, ok) /\ UNCHANGED <<cvars, batch, answer>>
    \/ \E t \in TaskIds : AsyncAdd(t) /\ UNCHANGED <<cvars, batch, answer>>
    \/ \E t \in TaskIds : AsyncMeta(t) /\ UNCHANGED <<cvars, batch, answer>>
    \/ \E t \in TaskIds : AsyncSuspend(t) /\ UNCHANGED <<cvars, batch, answer>>
    \/ \E t \in TaskIds : AsyncResume(t) /\ UNCHANGED <<cvars, batch, answer>>
    \/ \E t \in TaskIds : AsyncSummary(t) /\ UNCHANGED <<cvars, batch, answer>>
    \/ \E t \in TaskIds : AsyncReturn(t) /\ UNCHANGED <<cvars, batch, answer>>
    \/ \E t \in TaskIds : AsyncCancel(t) /\ UNCHANGED <<cvars, batch, answer>>
    \/ AsyncSearch /\ UNCHANGED <<cvars, batch, answer>>

SpecAsync == AsyncInit /\ [][AsyncNext]_vars

\* the documents of the sessions that ingest, search and ask: one of them
\* has a zero-norm embedding, one has chunks longer than an excerpt
AnswerDocuments ==
    {[id |-> "d1", content |-> ShortText], [id |-> "d1", content |-> ZeroText],
     [id |-> "d2", content |-> LongText]}

AnswerInit ==
    /\ ChunkIdle
    /\ AsyncIdle
    /\ batch = NoBatch
    /\ answer = NoAnswer
    /\ Constructed
    /\ disk = NoDisk
    /\ ops = 0
    /\ todo = AnswerDocuments

AnswerNext ==
    \/ Ingest /\ answer' = NoAnswer /\ UNCHANGED <<cvars, avars, batch>>
    \/ Search /\ answer' = NoAnswer /\ UNCHANGED <<cvars, avars, batch>>
    \/ SearchNoEmbedding /\ answer' = NoAnswer /\ UNCHANGED <<cvars, avars, batch>>
    \/ AnswerQuestion /\ UNCHANGED <<cvars, avars, batch>>

SpecAnswer == AnswerInit /\ [][AnswerNext]_vars

\* documents among which one has a chunk the embedder maps to the zero
\* vector
ZeroDocuments ==
    {[id |-> "d1", content |-> ZeroText], [id |-> "d1", content |-> ShortText],
     [id |-> "d2", content |-> ShortText]}

ZeroInit ==
    /\ ChunkIdle
    /\ AsyncIdle
    /\ batch = NoBatch
    /\ answer = NoAnswer
    /\ Constructed
    /\ disk = NoDisk
    /\ ops = 0
    /\ todo = ZeroDocuments

SpecZero == ZeroInit /\ [][Next]_vars

\* main with no snapshot to load: a new instance and a batch to process
BatchInit ==
    /\ ChunkIdle
    /\ AsyncIdle
    /\ Constructed
    /\ disk = NoDisk
    /\ ops = 0
    /\ todo = {}
    /\ \E docs \in Batches : batch = [docs |-> docs, pos |-> 1, reports |-> <<>>, pc |-> "loop"]
    /\ answer = NoAnswer

BatchNext ==
    \/ BatchMalformed /\ UNCHANGED <<cvars, avars, answer>>
    \/ BatchProcess /\ UNCHANGED <<cvars, avars, answer>>
    \/ BatchSave /\ UNCHANGED <<cvars, avars, answer>>
    \/ BatchSearch /\ UNCHANGED <<cvars, avars, answer>>

SpecBatch == BatchInit /\ [][BatchNext]_vars

(***************************************************************************)
(* The properties of the chunker, stated over SpecChunk.                   *)
(***************************************************************************)

\* C1: when intelligent_chunking has returned, every emitted chunk has a
\* text of at most chunk_size characters, unless the text is exactly one
\* sentence of the input that is itself longer than chunk_size.
C1_SizeBound ==
    cpc = "done" =>
        \A k \in 1..Len(loop.chunks) :
            LET t == loop.chunks[k].text
            IN  \/ Len(t) <= chunk_size
                \/ /\ Len(t) > chunk_size
                   /\ \E i \in 1..Len(sentences) : Strip(sentences[i]) = t

\* C2: when intelligent_chunking has returned, the sentences of the chunk
\* texts read in order, with the overlap sentences each chunk was seeded
\* with removed from its start, are exactly the non-empty sentences of the
\* input in their order.
C2_Coverage ==
    cpc = "done" =>
        LET stripped == [i \in 1..Len(sentences) |-> Strip(sentences[i])]
            fresh(k) ==
                LET parts == SplitDot(loop.chunks[k].text)
                IN  SubSeq(parts, loop.seeds[k] + 1, Len(parts))
            RECURSIVE ReadFrom(_)
            ReadFrom(k) ==
                IF k > Len(loop.chunks) THEN <<>> ELSE fresh(k) \o ReadFrom(k + 1)
        IN  ReadFrom(1) = SelectSeq(stripped, LAMBDA x : x # <<>>)

\* C3: the step that closes a chunk because the next sentence would
\* overflow leaves, as the chunk under construction, the overlap sentences
\* of the closed chunk followed by the boundary sentence, in its sentence
\* list and in its text.
C3_SeedThenAppend ==
    [][(/\ cpc = "loop"
        /\ pos <= Len(sentences)
        /\ Strip(sentences[pos]) # <<>>
        /\ Overflows(loop.current_chunk, Strip(sentences[pos]), chunk_size))
       => LET ovs == OverlapSentences(loop.current_sentences, overlap)
          IN  /\ loop'.current_sentences = Append(ovs, Strip(sentences[pos]))
              /\ loop'.current_chunk = TestChunk(Join(ovs), Strip(sentences[pos]))]_vars

\* C13: with overlap 0, the step that closes a chunk seeds the next chunk
\* with no sentence of the closed one: the chunk under construction holds
\* the boundary sentence alone, in its sentence list and in its text.
C13_ZeroOverlapSeedsNothing ==
    [][(/\ cpc = "loop"
        /\ overlap = 0
        /\ pos <= Len(sentences)
        /\ Strip(sentences[pos]) # <<>>
        /\ Overflows(loop.current_chunk, Strip(sentences[pos]), chunk_size))
       => /\ loop'.cur_seed = 0
          /\ loop'.current_sentences = <<Strip(sentences[pos])>>
          /\ loop'.current_chunk = Strip(sentences[pos])]_vars

\* C14: when intelligent_chunking has returned, every sentence of the input
\* that is longer than chunk_size is the whole text of a chunk of its own.
C14_LongSentenceOwnChunk ==
    cpc = "done" =>
        \A i \in 1..Len(sentences) :
            Len(Strip(sentences[i])) > chunk_size =>
                \E k \in 1..Len(loop.chunks) :
                    /\ loop.chunks[k].text = Strip(sentences[i])
                    /\ loop.chunks[k].sentence_count = 1

\* C15: no empty sentence is ever recorded in the chunk under construction
\* and every emitted chunk has a non-empty text and at least one sentence;
\* when intelligent_chunking has returned, the result is empty for an input
\* made only of whitespace and delimiters (every period followed by
\* whitespace) and for an input without a non-empty sentence, and otherwise
\* its last chunk is the final open chunk, ending with the last non-empty
\* sentence of the input.
C15_EmptyInputAndFinalChunk ==
    LET stripped == [i \in 1..Len(sentences) |-> Strip(sentences[i])]
        nonempty == SelectSeq(stripped, LAMBDA x : x # <<>>)
        delimiters_only ==
            \A i \in 1..Len(text) :
                \/ IsSpace(text[i])
                \/ text[i] = "." /\ i < Len(text) /\ IsSpace(text[i + 1])
        last == loop.chunks[Len(loop.chunks)]
    IN  /\ \A i \in DOMAIN loop.current_sentences : loop.current_sentences[i] # <<>>
        /\ \A k \in DOMAIN loop.chunks :
              loop.chunks[k].text # <<>> /\ loop.chunks[k].sentence_count >= 1
        /\ cpc = "done" =>
              /\ delimiters_only => loop.chunks = <<>>
              /\ nonempty = <<>> => loop.chunks = <<>>
              /\ nonempty # <<>> =>
                    /\ loop.chunks # <<>>
                    /\ last.text = Strip(loop.current_chunk)
                    /\ last.end_sentence = nonempty[Len(nonempty)]

\* C15 witness: the call has returned for an input with a skipped empty
\* sentence after a non-empty one, and its last chunk is the final open chunk.
C15_Witness ==
    /\ cpc = "done"
    /\ loop.chunks # <<>>
    /\ \E i, j \in 1..Len(sentences) :
          i < j /\ Strip(sentences[i]) # <<>> /\ Strip(sentences[j]) = <<>>
    /\ loop.chunks[Len(loop.chunks)].text = Strip(loop.current_chunk)

\* C27: when intelligent_chunking has returned, every chunk record agrees
\* with its own text: sentence_count is the number of sentences of the
\* text, char_count its length, start_sentence and end_sentence its first
\* and its last sentence.
C27_ChunkRecordSelfConsistent ==
    cpc = "done" =>
        \A i \in DOMAIN loop.chunks :
            LET c == loop.chunks[i]
                ss == SplitDot(c.text)
            IN  /\ c.sentence_count = Len(ss)
                /\ c.char_count = Len(c.text)
                /\ c.start_sentence = ss[1]
                /\ c.end_sentence = ss[Len(ss)]

(***************************************************************************)
(* The property of the word-window chunker, stated over SpecWords.         *)
(***************************************************************************)

\* C29: for 0 <= overlap < chunk_size the loop of chunk_text advances its
\* index in every iteration and stays below the number of words, so it
\* terminates; when it has returned, a text without words has no chunk,
\* and otherwise every chunk holds between 1 and chunk_size words, the
\* chunks are windows of the text's words taken in order from the first
\* word, two consecutive chunks share exactly overlap words, and the last
\* chunk ends with the last word of the text.
C29_WordWindows ==
    [][/\ (cpc = "loop" /\ cpc' = "loop") => (pos < Len(sentences) /\ pos' > pos)
       /\ cpc' = "done" =>
             LET ws == Words(text)
                 n == Len(ws)
                 cs == loop'.chunks
                 step == chunk_size - overlap
                 W(i) == Words(cs[i])
             IN  /\ cs = ChunkText(text, chunk_size, overlap)
                 /\ n = 0 => cs = <<>>
                 /\ n > 0 =>
                       /\ cs # <<>>
                       /\ \A i \in DOMAIN cs :
                             /\ Len(W(i)) >= 1
                             /\ Len(W(i)) <= chunk_size
                             /\ (i - 1) * step + Len(W(i)) <= n
                             /\ W(i) = SubSeq(ws, (i - 1) * step + 1, (i - 1) * step + Len(W(i)))
                       /\ \A i \in 1..(Len(cs) - 1) :
                             /\ Len(W(i)) - step = overlap
                             /\ Len(W(i + 1)) >= overlap
                             /\ SubSeq(W(i), Len(W(i)) - overlap + 1, Len(W(i)))
                                   = SubSeq(W(i + 1), 1, overlap)
                       /\ (Len(cs) - 1) * step + Len(W(Len(cs))) = n]_vars

\* C29 witness: chunk_text has returned several chunks that overlap by
\* one word, the last one shorter than chunk_size.
C29_Witness ==
    /\ cpc = "done"
    /\ text \in WordTexts
    /\ overlap = 1
    /\ Len(loop.chunks) >= 2
    /\ Len(Words(loop.chunks[Len(loop.chunks)])) < chunk_size

(***************************************************************************)
(* The properties of ProductionVectorDB, stated over Spec.                 *)
(***************************************************************************)

\* C4: an ingestion that reaches the index with a numeric ID the index
\* already holds returns an error and leaves the index as it was.
C4_DuplicateIdRejected ==
    [][(/\ ret'.op = "ingest"
        /\ \E i \in DOMAIN ret'.ids, j \in DOMAIN index.entries :
              ret'.ids[i] = index.entries[j].id)
       => (ret'.status = "error" /\ index' = index)]_vars

\* C5: no two metadata records carry the same embedding_id, and after a
\* completed ingestion the records it appended carry, in order, the IDs
\* under which its vectors were added to the index.
C5_EmbeddingIdUnique ==
    /\ \A i, j \in 1..Len(chunk_metadata) :
          i # j => chunk_metadata[i].embedding_id # chunk_metadata[j].embedding_id
    /\ (ret.op = "ingest" /\ ret.status = "completed") =>
          LET n == Len(ret.ids)
              m == Len(chunk_metadata)
              e == Len(index.entries)
          IN  /\ n <= m
              /\ n <= e
              /\ \A i \in 1..n :
                    /\ chunk_metadata[m - n + i].embedding_id = ret.ids[i]
                    /\ index.entries[e - n + i].id = ret.ids[i]

\* C6: in every reachable state the index holds as many entries as there
\* are metadata records, every ID of the index is the embedding_id of a
\* record, and every record's embedding_id is an ID of the index.
C6_IndexMetadataParity ==
    /\ Len(index.entries) = Len(chunk_metadata)
    /\ \A j \in DOMAIN index.entries :
          \E m \in DOMAIN chunk_metadata :
              chunk_metadata[m].embedding_id = index.entries[j].id
    /\ \A m \in DOMAIN chunk_metadata :
          \E j \in DOMAIN index.entries :
              index.entries[j].id = chunk_metadata[m].embedding_id

\* C8: a search in which the index returned a hit whose ID no metadata
\* record carries reports an error to its caller.
C8_UnresolvedHitSurfaced ==
    (/\ ret.op = "search"
     /\ \E i \in DOMAIN hits :
           hits[i].id # -1 /\ FirstRecord(chunk_metadata, hits[i].id) = 0)
    => ret.status = "error"

\* C9: the similarity_score values of the results of semantic_search never
\* increase along the returned sequence.
C9_ScoresNonIncreasing ==
    ret.op = "search" =>
        \A i, j \in DOMAIN ret.results :
            i < j => ret.results[i].similarity_score >= ret.results[j].similarity_score

\* C10: a call of load_index leaves the in-memory index and metadata either
\* both those of the snapshot or both what they were before the call.
C10_LoadedAsUnit ==
    [][ret'.op = "load"
       => \/ /\ disk.faiss.state = "ok"
             /\ disk.meta.state = "ok"
             /\ index' = disk.faiss.index
             /\ chunk_metadata' = disk.meta.records
          \/ /\ index' = index
             /\ chunk_metadata' = chunk_metadata]_vars

\* C12: after a search, every index hit that produced a result item has
\* exactly one metadata record with its ID, no two hits were reported
\* through the same metadata record, and the sentinel hits produced no item.
C12_HitsResolveUniquely ==
    ret.op = "search" =>
        LET at == [i \in DOMAIN hits |->
                      IF hits[i].id = -1 THEN 0 ELSE FirstRecord(chunk_metadata, hits[i].id)]
            reported == {i \in DOMAIN hits : at[i] # 0}
        IN  /\ Len(ret.results) = Cardinality(reported)
            /\ \A i \in reported :
                  Cardinality({m \in DOMAIN chunk_metadata :
                                  chunk_metadata[m].embedding_id = hits[i].id}) = 1
            /\ \A i, j \in reported : i # j => at[i] # at[j]

\* C16: a call of load_index that finds a readable index file and a
\* readable metadata file returns True and installs exactly the saved index
\* and the saved metadata, whatever the state of the statistics file.
C16_StatisticsDoNotDecideReload ==
    [][(/\ ret'.op = "load"
        /\ disk.faiss.state = "ok"
        /\ disk.meta.state = "ok")
       => /\ ret'.status = "true"
          /\ index' = disk.faiss.index
          /\ chunk_metadata' = disk.meta.records]_vars

C20_EmbedderFailureSurfaced ==
    [][(/\ index.created
        /\ Len(chunk_metadata) > 0
        /\ SearchNoEmbedding)
       => /\ ret'.results = <<>>
          /\ ret'.status = "error"]_vars

\* C24: the results of semantic_search are the hits of the index without
\* the sentinel hits and nothing else: one result for every hit whose ID is
\* not -1, in the order of the hit list, each with the score of its hit.
C24_JoinKeepsRanking ==
    ret.op = "search" =>
        LET real == {i \in DOMAIN hits : hits[i].id # -1}
            nth(j) == CHOOSE i \in real : Cardinality({x \in real : x < i}) = j - 1
        IN  /\ Len(ret.results) = Cardinality(real)
            /\ \A j \in DOMAIN ret.results :
                  /\ ret.results[j].similarity_score = hits[nth(j)].score
                  /\ ret.results[j].nan = hits[nth(j)].nan

\* C26: once the index holds an external ID twice, or a search met a hit
\* that no metadata record resolves, an ingestion writes neither to the
\* index nor to the metadata.
C26_WritesHaltAfterInconsistency ==
    [][(/\ \/ \E i, j \in DOMAIN index.entries :
                 i # j /\ index.entries[i].id = index.entries[j].id
           \/ /\ ret.op = "search"
              /\ \E i \in DOMAIN hits :
                    hits[i].id # -1 /\ FirstRecord(chunk_metadata, hits[i].id) = 0
        /\ ret'.op = "ingest")
       => /\ index' = index
          /\ chunk_metadata' = chunk_metadata]_vars

(***************************************************************************)
(* The properties of VectorDBSetup, stated over SpecSetup.                  *)
(***************************************************************************)

\* C7: a call of add_documents either adds every chunk of its batch to the
\* index and to the metadata list, or, when it fails, leaves the entries
\* of the index and the metadata list as they were before the call.
C7_BatchAllOrNothing ==
    [][ret'.op = "add"
       => IF ret'.status = "ok"
          THEN /\ Len(index'.entries) = Len(index.entries) + Len(ret'.ids)
               /\ Len(document_metadata') = Len(document_metadata) + Len(ret'.ids)
          ELSE /\ index'.entries = index.entries
               /\ document_metadata' = document_metadata]_vars

\* C18: a search of VectorDBSetup on an index that was never created or
\* holds no vector returns an empty sequence and does not raise.
C18_EmptyIndexSearchEmpty ==
    (ret.op = "search" /\ (~index.created \/ index.entries = <<>>))
    => /\ ret.status = "ok"
       /\ ret.results = <<>>

(***************************************************************************)
(* The property of concurrent tasks, stated over SpecAsync.                *)
(***************************************************************************)

\* C11: the state a search task runs on, and the state a cancellation
\* leaves, hold no partially added batch: the index entries and the
\* metadata records correspond one to one in order, and every document has
\* either all of its chunks' records or none.
C11_NoPartialBatchVisible ==
    [][LET Whole(idx, meta) ==
               /\ Len(idx.entries) = Len(meta)
               /\ \A j \in DOMAIN meta : idx.entries[j].id = meta[j].embedding_id
               /\ \A t \in TaskIds :
                     Cardinality({j \in DOMAIN meta : meta[j].doc_id = TaskDocument(t).id})
                         \in {0, Len(DefaultChunks[TaskDocument(t).content])}
       IN  /\ AsyncSearch => Whole(index, chunk_metadata)
           /\ (\E t \in TaskIds : AsyncCancel(t)) => Whole(index', chunk_metadata')]_vars

\* C11 witness: a search has returned results while one ingestion task is
\* suspended at an await and another was cancelled after storing its chunks.
C11_Witness ==
    /\ ret.op = "search"
    /\ ret.results # <<>>
    /\ \E t, u \in TaskIds :
          /\ tasks[t].suspended
          /\ tasks[u].pc = "cancelled"
          /\ \E j \in DOMAIN chunk_metadata : chunk_metadata[j].doc_id = TaskDocument(u).id

\* C28: no step of concurrent ingestion tasks replaces or removes a vector
\* the index holds, and when a task has completed, every chunk of its
\* document has its vector in the index and its record in the metadata.
C28_IndexCreatedOnce ==
    [][/\ \A j \in DOMAIN index.entries :
             j \in DOMAIN index'.entries /\ index'.entries[j] = index.entries[j]
       /\ \A t \in TaskIds :
             tasks'[t].pc = "done" =>
                 Cardinality({j \in DOMAIN chunk_metadata' :
                                 /\ chunk_metadata'[j].doc_id = TaskDocument(t).id
                                 /\ j \in DOMAIN index'.entries
                                 /\ index'.entries[j].id = chunk_metadata'[j].embedding_id})
                     = Len(DefaultChunks[TaskDocument(t).content])]_vars

\* C28 witness: one task has completed while the other, started on the
\* same instance, is suspended after storing its chunks in the index the
\* first one created or found.
C28_Witness ==
    \E t, u \in TaskIds :
        /\ tasks[t].pc = "done"
        /\ tasks[u].suspended
        /\ Len(index.entries) =
              Len(DefaultChunks[TaskDocument(t).content]) + Len(DefaultChunks[TaskDocument(u).content])

(***************************************************************************)
(* The property of main's batch loop, stated over SpecBatch.               *)
(***************************************************************************)

\* C17: when main has left the loop over the batch, by finishing it or by
\* an exception, every document of the batch has been processed and has a
\* report of its own: the i-th report is the i-th document's, and a
\* document without content or with a malformed record is reported failed.
C17_FailureIsolatedPerDocument ==
    batch.pc \in {"raised", "saved", "done"} =>
        /\ Len(batch.reports) = Len(batch.docs)
        /\ \A i \in DOMAIN batch.reports :
              /\ batch.reports[i].doc = i
              /\ (batch.docs[i].content = EmptyText \/ Missing \in {batch.docs[i].id, batch.docs[i].name})
                    => batch.reports[i].status = "error"

(***************************************************************************)
(* The property of zero-norm embeddings, stated over SpecZero.             *)
(***************************************************************************)

\* C21: no vector the index holds is a NaN vector, the result of dividing
\* an embedding by its zero norm: an ingestion that meets such an embedding
\* adds nothing to the index.
C21_ZeroNormRejected ==
    \A j \in DOMAIN index.entries : ~index.entries[j].vec.nan

(***************************************************************************)
(* The properties of answer_question, stated over SpecAnswer.              *)
(***************************************************************************)

\* C22: the confidence answer_question returns is a number of [0, 1]: it
\* is not NaN, not below 0 and not above 1 (2 in doubled scores).
C22_ConfidenceClamped ==
    answer.kind # "none" =>
        /\ ~answer.confidence.nan
        /\ answer.confidence.value2 >= 0
        /\ answer.confidence.value2 <= 2

\* C25: every step of ingestion, search and answer_question keeps each
\* index entry and each metadata record where and as it was, so the counts
\* never decrease, and a search or an answer_question call changes neither
\* the index nor the metadata.
C25_AppendOnly ==
    [][/\ index.created => index'.created
       /\ \A j \in DOMAIN index.entries :
             j \in DOMAIN index'.entries /\ index'.entries[j] = index.entries[j]
       /\ \A j \in DOMAIN chunk_metadata :
             j \in DOMAIN chunk_metadata' /\ chunk_metadata'[j] = chunk_metadata[j]
       /\ ret'.op = "search" => (index' = index /\ chunk_metadata' = chunk_metadata)]_vars

\* C25 witness: all documents are ingested, among them two versions of one
\* document, and an answer_question call has returned chunks.
C25_Witness ==
    /\ todo = {}
    /\ Len(index.entries) = Len(chunk_metadata)
    /\ \E i, j \in DOMAIN index.entries : i # j /\ index.entries[i].id = index.entries[j].id
    /\ answer.kind = "generated"

\* C23: answer_question never raises and always returns an answer text:
\* the fixed insufficient-information answer with confidence 0 and no
\* sources when the retrieval gave nothing; with chunks and no LLM client,
\* a fallback text quoting the first chunks in order, each cut to the
\* excerpt length; and the error answer with confidence 0 and no sources
\* when the LLM call fails.
C23_AlwaysTextualAnswer ==
    answer.kind # "none" =>
        /\ ~answer.raised
        /\ answer.kind \in {"insufficient", "fallback", "generated", "error"}
        /\ ret.results = <<>> => answer = InsufficientAnswer(answer.llm)
        /\ (ret.results # <<>> /\ answer.llm = "none") =>
              /\ answer.kind = "fallback"
              /\ Len(answer.excerpts) = Min(FallbackExcerpts, Len(ret.results))
              /\ \A i \in DOMAIN answer.excerpts :
                    /\ answer.excerpts[i].chunk_id = ret.results[i].chunk_id
                    /\ answer.excerpts[i].chars = Min(ret.results[i].char_count, ExcerptLen)
        /\ (ret.results # <<>> /\ answer.llm = "fails") =>
              /\ answer.kind = "error"
              /\ answer.sources = <<>>
              /\ answer.confidence = [value2 |-> 0, nan |-> FALSE]

\* C23 witness: without an LLM client, a fallback answer has been returned
\* for more chunks than it quotes, one of the quoted chunks being longer
\* than an excerpt.
C23_Witness ==
    /\ answer.kind = "fallback"
    /\ answer.llm = "none"
    /\ Len(ret.results) > FallbackExcerpts
    /\ \E i \in DOMAIN answer.excerpts : ret.results[i].char_count > ExcerptLen

====
